---- MODULE Spec2Model ----
\* Attribute-pattern pipeline of toolkit/attribute_patterns/model.py:
\* generate_graph_model, prepare_graph, detect_patterns, create_time_series_df.
\* The helpers imported from detection_functions, graph_functions and
\* record_counter are modelled from the written specification (sections 4.1-4.5).
EXTENDS Integers, Sequences, FiniteSets, TLC

VARIABLES
    dynamic_df,          \* the standardized dynamic table: a set of (subject, period, att) rows
    node_to_period_to_pos, \* (subject, period) -> 2D position
    max_pattern_length,  \* detect_patterns parameter, fixed for a behaviour
    min_pattern_count,   \* parameter of the latest detect_patterns call
    pattern_df,          \* ranked table returned by the latest detect_patterns call
    close_pairs,         \* returned tally
    all_pairs,           \* returned tally
    dp_status,           \* "idle" | "returned" | "raised"
    baseline,            \* Record Counter's baseline per (period, pattern), once queried
    prev_run,            \* the call before the latest one: its min_pattern_count and detections
    min_edge_weight,     \* prepare_graph parameter, in tenths
    missing_edge_prop,   \* prepare_graph parameter, in tenths
    time_to_graph,       \* prepare_graph result: period -> graph (set of weighted edges)
    pg_status,           \* "idle" | "returned" | "raised"
    selected,            \* create_time_series_df argument: the pattern strings of pattern_df
    time_series_df,      \* create_time_series_df result
    ts_status,           \* "idle" | "returned" | "raised"
    wide_df,             \* generate_graph_model argument df: the wide table, a list of rows
    att_cols,            \* the attribute column names of the wide table
    type_val_sep,        \* generate_graph_model argument
    model_df,            \* generate_graph_model result
    gm_status            \* "idle" | "returned" | "raised"

vars == <<dynamic_df, node_to_period_to_pos, max_pattern_length, min_pattern_count,
          pattern_df, close_pairs, all_pairs, dp_status, baseline, prev_run,
          min_edge_weight, missing_edge_prop, time_to_graph, pg_status,
          selected, time_series_df, ts_status,
          wide_df, att_cols, type_val_sep, model_df, gm_status>>

detect_vars == <<dynamic_df, node_to_period_to_pos, max_pattern_length, min_pattern_count,
                 pattern_df, close_pairs, all_pairs, dp_status, baseline, prev_run>>
graph_vars == <<min_edge_weight, missing_edge_prop, time_to_graph, pg_status>>
series_vars == <<selected, time_series_df, ts_status>>
model_vars == <<wide_df, att_cols, type_val_sep, model_df, gm_status>>

-----------------------------------------------------------------------------
\* Bounds and value domains

SubjectSeq == <<"s1", "s2">>
PeriodSeq == <<"p1", "p2">>
AttSeq == <<"a=1", "b=1">>
\* every conjunction over AttSeq, each written in sorted order
PatternSeq == << <<"a=1">>, <<"b=1">>, <<"a=1", "b=1">> >>
Positions == {<<0, 0>>, <<1, 0>>}

MaxRows == 4
MaxMinCount == 2
MaxPatternLength == 2
MaxSelected == 2
MaxDfRows == 2

Range(s) == {s[i] : i \in DOMAIN s}
Subjects == Range(SubjectSeq)
Periods == Range(PeriodSeq)
Atts == Range(AttSeq)

AllRows == [subject : Subjects, period : Periods, att : Atts]

RECURSIVE TablesUpTo(_)
TablesUpTo(n) ==
    IF n = 0 THEN {{}}
    ELSE LET smaller == TablesUpTo(n - 1)
         IN  smaller \cup {t \cup {r} : t \in smaller, r \in AllRows}

\* python sorted(): the elements of S in the order of the sequence `order`
sorted(order, S) == SelectSeq(order, LAMBDA x : x \in S)

NoRun == [m |-> 0, dets |-> {}]

-----------------------------------------------------------------------------
\* Record Counter (specification 4.5)

\* count(period, conjunction): distinct subjects satisfying every conjunct in the period
count_records(df, period, conj) ==
    Cardinality({s \in Subjects :
        \A a \in conj : [subject |-> s, period |-> period, att |-> a] \in df})

subject_atts(df, s, period) ==
    {a \in Atts : [subject |-> s, period |-> period, att |-> a] \in df}

\* baseline(period, conjunction) -> (mean, std): the independence estimate is not
\* fixed by the specification ("or equivalent"): any mean > 0 and std > 0, chosen
\* when a (period, conjunction) is first queried and the same ever after
Baselines == {[mean |-> 1, std |-> 1], [mean |-> 3, std |-> 2]}
Unqueried == [mean |-> 0, std |-> 0]

-----------------------------------------------------------------------------
\* Close-Node Detector (specification 4.3)

\* the pluggable proximity rule is_close(posA, posB): squared distance within a radius
is_close(p, q) ==
    (p[1] - q[1]) * (p[1] - q[1]) + (p[2] - q[2]) * (p[2] - q[2]) = 0

period_pairs(pos, sorted_nodes, period) ==
    {<<sorted_nodes[ij[1]], sorted_nodes[ij[2]]>> :
        ij \in {x \in (DOMAIN sorted_nodes) \X (DOMAIN sorted_nodes) :
            /\ x[1] < x[2]
            /\ <<sorted_nodes[x[1]], period>> \in DOMAIN pos
            /\ <<sorted_nodes[x[2]], period>> \in DOMAIN pos}}

period_close(pos, sorted_nodes, period) ==
    {uv \in period_pairs(pos, sorted_nodes, period) :
        is_close(pos[<<uv[1], period>>], pos[<<uv[2], period>>])}

RECURSIVE SumOver(_, _)
SumOver(f, S) ==
    IF S = {} THEN 0
    ELSE LET x == CHOOSE y \in S : TRUE IN f[x] + SumOver(f, S \ {x})

\* candidate rows (period, union of the pair's attributes) kept when shared by at
\* least min_count subjects of the period; plus the two tallies
create_close_node_rows(used_periods, pos, sorted_nodes, min_count, df) ==
    LET P == Range(used_periods)
        cand(uv, period) == subject_atts(df, uv[1], period) \cup subject_atts(df, uv[2], period)
    IN  [rows |-> {[period |-> x[1], atts |-> cand(x[2], x[1])] :
                      x \in {y \in UNION {{<<p, uv>> : uv \in period_close(pos, sorted_nodes, p)} : p \in P} :
                          /\ cand(y[2], y[1]) # {}
                          /\ count_records(df, y[1], cand(y[2], y[1])) >= min_count}},
         all_pairs |-> SumOver([p \in P |-> Cardinality(period_pairs(pos, sorted_nodes, p))], P),
         close_pairs |-> SumOver([p \in P |-> Cardinality(period_close(pos, sorted_nodes, p))], P)]

-----------------------------------------------------------------------------
\* Pattern Aggregator (specification 4.4)

\* period -> list of conjunctions: the sub-conjunctions of the period's candidates,
\* at most max_len long, that at least min_count subjects satisfy
create_period_to_patterns(used_periods, close_node_df, max_len, min_count, df) ==
    [p \in Range(used_periods) |->
        SelectSeq(PatternSeq, LAMBDA pat :
            /\ Len(pat) <= max_len
            /\ \E row \in close_node_df :
                  row.period = p /\ Range(pat) \subseteq row.atts
            /\ count_records(df, p, Range(pat)) >= min_count)]

\* " & ".join(atts): the pattern string, as its tokens
join(atts) ==
    [i \in 1..(2 * Len(atts) - 1) |-> IF i % 2 = 1 THEN atts[(i + 1) \div 2] ELSE "&"]

\* the rows in period order, each (period, pattern, length, count)
RECURSIVE flatten(_, _, _)
flatten(used_periods, period_to_patterns, df) ==
    IF used_periods = <<>> THEN <<>>
    ELSE LET p == Head(used_periods)
             pats == period_to_patterns[p]
         IN  [k \in 1..Len(pats) |->
                 [period |-> p, pattern |-> join(pats[k]), length |-> Len(pats[k]),
                  count |-> count_records(df, p, Range(pats[k]))]]
             \o flatten(Tail(used_periods), period_to_patterns, df)

\* one (period, pattern, length, count, mean, z_score) row per period and pattern;
\* z_score = (count - mean) / std kept as an exact fraction
create_pattern_rows(base, bl) ==
    [k \in 1..Len(base) |->
        [period |-> base[k].period, pattern |-> base[k].pattern,
         length |-> base[k].length, count |-> base[k].count,
         mean |-> bl[<<base[k].period, base[k].pattern>>].mean,
         z_score |-> [num |-> base[k].count - bl[<<base[k].period, base[k].pattern>>].mean,
                      den |-> bl[<<base[k].period, base[k].pattern>>].std]]]

-----------------------------------------------------------------------------
\* Pattern Scorer: detect_patterns, model.py lines 209-236

\* float values: a finite value is the exact fraction num/den; NaN and the infinities
\* are what numpy division yields. "raise" stands for a propagating exception.
Frac(n, d) == [kind |-> "num", num |-> n, den |-> d]
NaN == [kind |-> "nan", num |-> 0, den |-> 1]
NegInf == [kind |-> "-inf", num |-> 0, den |-> 1]
PosInf == [kind |-> "+inf", num |-> 0, den |-> 1]
Raise == [kind |-> "raise", num |-> 0, den |-> 1]

\* pattern_df.groupby("pattern")["period"].count(): rows per pattern string
detections_mut(pattern_rows, pat) == Len(pattern_rows)
detections(pattern_rows, pat) ==
    Cardinality({k \in DOMAIN pattern_rows : pattern_rows[k].pattern = pat})

\* pattern_df.merge(detections, on="pattern"): left order kept, fresh index 0..n-1
merge(pattern_rows) ==
    [k \in DOMAIN pattern_rows |->
        [index |-> k - 1,
         period |-> pattern_rows[k].period, pattern |-> pattern_rows[k].pattern,
         length |-> pattern_rows[k].length, count |-> pattern_rows[k].count,
         mean |-> pattern_rows[k].mean, z_score |-> pattern_rows[k].z_score,
         detections |-> detections(pattern_rows, pattern_rows[k].pattern)]]

\* np.log1p(count) in thousandths, for count = 1, 2, ...
Log1pSeq == <<693, 1099, 1386, 1609, 1792, 1946, 2079, 2197>>
log1p(n) == IF n = 0 THEN 0 ELSE Log1pSeq[n]

\* z_score * length * detections * log1p(count), in thousandths
overall_score(row) ==
    Frac(row.z_score.num * row.length * row.detections * log1p(row.count), row.z_score.den)

frac_le(a, b) == a.num * b.den <= b.num * a.den

\* Series.max(): NaN for an empty series
series_max_mut(raw) ==
    IF Len(raw) = 0 THEN Raise
    ELSE raw[CHOOSE k \in DOMAIN raw : \A j \in DOMAIN raw : frac_le(raw[j], raw[k])]
series_max(raw) ==
    IF Len(raw) = 0 THEN NaN
    ELSE raw[CHOOSE k \in DOMAIN raw : \A j \in DOMAIN raw : frac_le(raw[j], raw[k])]

\* overall_score / overall_score.max(), float division: x/0 is NaN or an infinity
normalize(x, mx) ==
    IF mx.kind = "nan" THEN NaN
    ELSE IF mx.num = 0
         THEN (IF x.num = 0 THEN NaN ELSE IF x.num < 0 THEN NegInf ELSE PosInf)
         ELSE Frac(x.num * mx.den, x.den * mx.num)

\* round half to even of n/d, d > 0
round_half_even(n, d) ==
    LET q == n \div d
        r == n - q * d
    IN  IF 2 * r < d THEN q
        ELSE IF 2 * r > d THEN q + 1
        ELSE IF q % 2 = 0 THEN q ELSE q + 1

\* Series.round(2): the value in hundredths
round2(v) ==
    IF v.kind # "num" THEN v
    ELSE IF v.den > 0 THEN Frac(round_half_even(100 * v.num, v.den), 100)
    ELSE Frac(round_half_even(-100 * v.num, -v.den), 100)

\* sort_values("overall_score", ascending=False): a may stand before b; NaN goes last
ascending(a, b) ==
    \/ b.kind = "nan"
    \/ /\ a.kind # "nan"
       /\ \/ a.kind = "-inf"
          \/ b.kind = "+inf"
          \/ a.kind = "num" /\ b.kind = "num" /\ a.num <= b.num
descending(a, b) ==
    \/ b.kind = "nan"
    \/ /\ a.kind # "nan"
       /\ \/ a.kind = "+inf"
          \/ b.kind = "-inf"
          \/ a.kind = "num" /\ b.kind = "num" /\ a.num >= b.num

\* the default kind="quicksort" is not a stable sort: every order of the rows that
\* is sorted by the key is a possible outcome
sort_values(df) ==
    {out \in {[i \in DOMAIN df |-> df[perm[i]]] : perm \in Permutations(DOMAIN df)} :
        \A i \in DOMAIN out : \A j \in DOMAIN out :
            i < j => descending(out[i].overall_score, out[j].overall_score)}

\* the call of create_period_to_patterns, model.py lines 199-205
period_to_patterns_call_mut(used_periods, close_node_df, max_len, min_count, df) ==
    create_period_to_patterns(used_periods, close_node_df, min_count, max_len, df)
period_to_patterns_call(used_periods, close_node_df, max_len, min_count, df) ==
    create_period_to_patterns(used_periods, close_node_df, max_len, min_count, df)

DetSet(df) == {<<df[k].period, df[k].pattern>> : k \in DOMAIN df}

\* lines 220-232: the scored table, or the exception
scored_table(merged, raw, mx) ==
    [k \in DOMAIN merged |->
        [index |-> merged[k].index,
         period |-> merged[k].period, pattern |-> merged[k].pattern,
         length |-> merged[k].length, count |-> merged[k].count,
         mean |-> merged[k].mean, z_score |-> merged[k].z_score,
         detections |-> merged[k].detections,
         overall_score |-> round2(normalize(raw[k], mx))]]

normalized(merged, raw, mx) ==
    IF mx.kind = "raise" THEN [raised |-> TRUE, tables |-> {}]
    ELSE [raised |-> FALSE, tables |-> sort_values(scored_table(merged, raw, mx))]

with_raw(merged, raw) == normalized(merged, raw, series_max(raw))

rank(merged) == with_raw(merged, [k \in DOMAIN merged |-> overall_score(merged[k])])

\* line 236: return pattern_df, close_pairs, all_pairs
return(outcome, cn) ==
    IF outcome.raised
    THEN /\ dp_status' = "raised"
         /\ pattern_df' = <<>>
         /\ close_pairs' = -1
         /\ all_pairs' = -1
    ELSE /\ dp_status' = "returned"
         /\ pattern_df' \in outcome.tables
         /\ close_pairs' = cn.close_pairs
         /\ all_pairs' = cn.all_pairs

with_baseline(base, bl, cn) ==
    /\ baseline' = bl
    /\ return(rank(merge(create_pattern_rows(base, bl))), cn)

query_baseline(base, fresh, cn) ==
    \E answer \in [fresh -> Baselines] :
        with_baseline(base,
                      [key \in DOMAIN baseline |->
                          IF key \in fresh THEN answer[key] ELSE baseline[key]],
                      cn)

with_rows(base, cn) ==
    query_baseline(base,
                   {key \in {<<base[k].period, base[k].pattern>> : k \in DOMAIN base} :
                       baseline[key] = Unqueried},
                   cn)

with_close_nodes(m, used_periods, cn) ==
    with_rows(flatten(used_periods,
                      period_to_patterns_call(used_periods, cn.rows, max_pattern_length,
                                              m, dynamic_df),
                      dynamic_df),
              cn)

with_periods(m, used_periods, sorted_nodes) ==
    with_close_nodes(m, used_periods,
                     create_close_node_rows(used_periods, node_to_period_to_pos,
                                            sorted_nodes, m, dynamic_df))

detect_patterns(m) ==
    /\ with_periods(m, sorted(PeriodSeq, {r.period : r \in dynamic_df}),
                    sorted(SubjectSeq, {sp[1] : sp \in DOMAIN node_to_period_to_pos}))
    /\ min_pattern_count' = m
    /\ prev_run' = IF dp_status = "returned"
                   THEN [m |-> min_pattern_count, dets |-> DetSet(pattern_df)]
                   ELSE NoRun
    /\ UNCHANGED <<dynamic_df, node_to_period_to_pos, max_pattern_length>>
    /\ UNCHANGED <<graph_vars, series_vars, model_vars>>

-----------------------------------------------------------------------------
\* Edge Builder and Graph Converter (specification 4.1, 4.2)

\* the full_attribute list of each grouping key "subject@period" of one period
grouping(pdf, period) ==
    [g \in {<<r.subject, r.period>> : r \in {x \in pdf : x.period = period}} |->
        {r.att : r \in {x \in pdf : x.subject = g[1] /\ x.period = g[2]}}]

\* the unordered pairs of grouping keys that share an attribute and whose weight
\* |intersection| / |union| clears min_weight (tenths), each emitted once
qualifying_edges(tdf, min_weight) ==
    {e \in SUBSET (DOMAIN tdf) :
        /\ Cardinality(e) = 2
        /\ \E u \in e : \E v \in e :
              /\ u # v
              /\ tdf[u] \cap tdf[v] # {}
              /\ 10 * Cardinality(tdf[u] \cap tdf[v]) >=
                     min_weight * Cardinality(tdf[u] \cup tdf[v])}

\* the edge lists thinning can leave: each edge is dropped with probability
\* missing_prop (tenths)
create_edge_df_from_atts(tdf, min_weight, missing_prop) ==
    LET edges == qualifying_edges(tdf, min_weight)
    IN  IF missing_prop <= 0 THEN {edges}
        ELSE IF missing_prop >= 10 THEN {{}}
        ELSE SUBSET edges

\* an undirected graph from an edge list; an empty list gives the empty graph
convert_edge_df_to_graph(dedge_df) ==
    [nodes |-> UNION dedge_df, edges |-> dedge_df]

-----------------------------------------------------------------------------
\* prepare_graph, model.py lines 161-178

OutOfRange(x) == x < 0 \/ x > 10

\* the loop over sorted periods: every time_to_graph the thinning can produce
RECURSIVE graphs_of(_, _, _, _)
graphs_of(periods, pdf, min_weight, missing_prop) ==
    IF periods = <<>> THEN {[p \in {} |-> convert_edge_df_to_graph({})]}
    ELSE {(Head(periods) :> convert_edge_df_to_graph(dedge_df)) @@ rest :
             dedge_df \in create_edge_df_from_atts(grouping(pdf, Head(periods)),
                                                   min_weight, missing_prop),
             rest \in graphs_of(Tail(periods), pdf, min_weight, missing_prop)}

\* one graph per period of the table; no argument is validated
prepare_graph ==
    /\ pg_status = "idle"
    /\ time_to_graph' \in graphs_of(sorted(PeriodSeq, {r.period : r \in dynamic_df}),
                                    dynamic_df, min_edge_weight, missing_edge_prop)
    /\ pg_status' = "returned"
    /\ UNCHANGED <<dynamic_df, min_edge_weight, missing_edge_prop>>
    /\ UNCHANGED <<node_to_period_to_pos, max_pattern_length, min_pattern_count,
                   pattern_df, close_pairs, all_pairs, dp_status, baseline, prev_run>>
    /\ UNCHANGED <<series_vars, model_vars>>

-----------------------------------------------------------------------------
\* create_time_series_df, model.py lines 151-158

\* pattern.split(" & "): the attributes between the separators
split(pattern) == SelectSeq(pattern, LAMBDA t : t # "&")

\* Record Counter time_series (specification 4.5): one (period, pattern, count) row
\* per period of the table, periods with count 0 included
create_time_series_rows(model, atts) ==
    LET periods == sorted(PeriodSeq, {r.period : r \in model})
    IN  [i \in DOMAIN periods |->
            [period |-> periods[i], pattern |-> join(atts),
             count |-> count_records(model, periods[i], Range(atts))]]

\* the rows of the first selected pattern only
extend_rows_first(model, patterns) ==
    IF patterns = <<>> THEN <<>>
    ELSE create_time_series_rows(model, split(Head(patterns)))

\* rows.extend(...) for every row of pattern_df, in order (lines 154-156)
RECURSIVE extend_rows(_, _)
extend_rows(model, patterns) ==
    IF patterns = <<>> THEN <<>>
    ELSE create_time_series_rows(model, split(Head(patterns)))
             \o extend_rows(model, Tail(patterns))

create_time_series_df ==
    /\ ts_status = "idle"
    /\ time_series_df' = extend_rows(dynamic_df, selected)
    /\ ts_status' = "returned"
    /\ UNCHANGED <<selected, detect_vars, graph_vars, model_vars>>

-----------------------------------------------------------------------------
\* generate_graph_model, model.py lines 82-112
\* Strings are sequences of characters; a cell is a string or a null (NaN / <NA>).

Null == [null |-> TRUE, str |-> <<>>]
Str(chars) == [null |-> FALSE, str |-> chars]

\* .astype(str): a null becomes the text "nan"
astype_str(cell) == IF cell.null THEN <<"n", "a", "n">> ELSE cell.str

\* .replace("nan", "").replace("<NA>", "")
replace_null(chars) ==
    IF chars = <<"n", "a", "n">> \/ chars = <<"<", "N", "A", ">">> THEN <<>> ELSE chars

DigitSeq == <<"0", "1", "2", "3", "4", "5", "6", "7", "8", "9">>
\* str(x) of a positive integer
RECURSIVE str(_)
str(x) == IF x < 10 THEN <<DigitSeq[x + 1]>> ELSE Append(str(x \div 10), DigitSeq[(x % 10) + 1])

\* lines 86-98: every cell as text, a fresh Subject ID "1", "2", ... per input row
textual(in_df) ==
    [i \in DOMAIN in_df |->
        [subject_id |-> str(i),
         period |-> replace_null(astype_str(in_df[i].period)),
         vals |-> [j \in DOMAIN in_df[i].vals |-> replace_null(astype_str(in_df[i].vals[j]))]]]

\* lines 100-106: pd.melt, one row per attribute column and input row, column-major
melt(pdf, cols) ==
    [k \in 1..(Len(cols) * Len(pdf)) |->
        [subject_id |-> pdf[((k - 1) % Len(pdf)) + 1].subject_id,
         period |-> pdf[((k - 1) % Len(pdf)) + 1].period,
         attribute_type |-> cols[((k - 1) \div Len(pdf)) + 1],
         attribute_value |-> pdf[((k - 1) % Len(pdf)) + 1].vals[((k - 1) \div Len(pdf)) + 1]]]

\* line 107: pdf[pdf["Attribute Value"] != ""]
drop_empty_values_mut(melted) == melted
drop_empty_values(melted) == SelectSeq(melted, LAMBDA r : r.attribute_value # <<>>)

\* lines 108-111: Full Attribute = Attribute Type + type_val_sep + Attribute Value
with_full_attribute(melted, sep) ==
    [k \in DOMAIN melted |->
        [subject_id |-> melted[k].subject_id, period |-> melted[k].period,
         attribute_type |-> melted[k].attribute_type,
         attribute_value |-> melted[k].attribute_value,
         full_attribute |-> melted[k].attribute_type \o sep \o melted[k].attribute_value]]

\* line 112: pdf[pdf["Period"] != ""]
drop_empty_periods(pdf) == SelectSeq(pdf, LAMBDA r : r.period # <<>>)

generate_graph_model ==
    /\ gm_status = "idle"
    /\ model_df' = drop_empty_periods(
                       with_full_attribute(
                           drop_empty_values(melt(textual(wide_df), att_cols)),
                           type_val_sep))
    /\ gm_status' = "returned"
    /\ UNCHANGED <<wide_df, att_cols, type_val_sep>>
    /\ UNCHANGED <<detect_vars, graph_vars, series_vars>>

-----------------------------------------------------------------------------
\* Specifications

Idle == "idle"

DetectIdle ==
    /\ node_to_period_to_pos = [k \in {} |-> <<0, 0>>]
    /\ max_pattern_length = 1
    /\ min_pattern_count = 0
    /\ pattern_df = <<>>
    /\ close_pairs = -1
    /\ all_pairs = -1
    /\ dp_status = Idle
    /\ baseline = [key \in Periods \X {join(PatternSeq[i]) : i \in DOMAIN PatternSeq} |-> Unqueried]
    /\ prev_run = NoRun

GraphIdle ==
    /\ min_edge_weight = 0
    /\ missing_edge_prop = 0
    /\ time_to_graph = [p \in {} |-> convert_edge_df_to_graph({})]
    /\ pg_status = Idle

SeriesIdle ==
    /\ selected = <<>>
    /\ time_series_df = <<>>
    /\ ts_status = Idle

ModelIdle ==
    /\ wide_df = <<>>
    /\ att_cols = <<>>
    /\ type_val_sep = <<>>
    /\ model_df = <<>>
    /\ gm_status = Idle

InitDetect ==
    /\ dynamic_df \in TablesUpTo(MaxRows)
    /\ node_to_period_to_pos \in
           [{<<r.subject, r.period>> : r \in dynamic_df} -> Positions]
    /\ max_pattern_length \in 0..MaxPatternLength
    /\ min_pattern_count = 0
    /\ pattern_df = <<>>
    /\ close_pairs = -1
    /\ all_pairs = -1
    /\ dp_status = Idle
    /\ baseline = [key \in Periods \X {join(PatternSeq[i]) : i \in DOMAIN PatternSeq} |-> Unqueried]
    /\ prev_run = NoRun
    /\ GraphIdle /\ SeriesIdle /\ ModelIdle

NextDetect == \E m \in 1..MaxMinCount : detect_patterns(m)

SpecDetect == InitDetect /\ [][NextDetect]_vars

EdgeParams == {-5, 0, 5, 10, 15}

InitGraph ==
    /\ dynamic_df \in TablesUpTo(MaxRows)
    /\ DetectIdle /\ SeriesIdle /\ ModelIdle
    /\ min_edge_weight \in EdgeParams
    /\ missing_edge_prop \in EdgeParams
    /\ time_to_graph = [p \in {} |-> convert_edge_df_to_graph({})]
    /\ pg_status = Idle

SpecGraph == InitGraph /\ [][prepare_graph]_vars

RECURSIVE SeqsUpTo(_, _)
SeqsUpTo(S, n) ==
    IF n = 0 THEN {<<>>}
    ELSE LET shorter == SeqsUpTo(S, n - 1)
         IN  shorter \cup {Append(q, x) : q \in shorter, x \in S}

InitSeries ==
    /\ dynamic_df \in TablesUpTo(MaxRows)
    /\ DetectIdle /\ GraphIdle /\ ModelIdle
    /\ selected \in SeqsUpTo({join(PatternSeq[i]) : i \in DOMAIN PatternSeq}, MaxSelected)
    /\ time_series_df = <<>>
    /\ ts_status = Idle

SpecSeries == InitSeries /\ [][create_time_series_df]_vars

CellValues == {Null, Str(<<"x">>), Str(<<"=", "x">>)}
PeriodValues == {Null, Str(<<>>), Str(<<"p">>)}
ColumnChoices == {<< <<"a">>, <<"a", "=">> >>, << <<"a">>, <<"b">> >>}
Separators == {<<"=">>, <<":">>, <<>>}

InitModel ==
    /\ dynamic_df = {}
    /\ DetectIdle /\ GraphIdle /\ SeriesIdle
    /\ att_cols \in ColumnChoices
    /\ type_val_sep \in Separators
    /\ wide_df \in SeqsUpTo([period : PeriodValues, vals : [1..2 -> CellValues]], MaxDfRows)
    /\ model_df = <<>>
    /\ gm_status = Idle

SpecModel == InitModel /\ [][generate_graph_model]_vars

-----------------------------------------------------------------------------
\* Properties

Returned == dp_status = "returned"
InUnit(v) == v.kind = "num" /\ 0 <= v.num /\ v.num <= 100

\* C1: whenever detect_patterns returns a non-empty ranked table, every row's
\* overall_score lies in [0,1], whatever the signs of the z_scores.
C1_ScoreInUnitInterval ==
    Returned => \A k \in DOMAIN pattern_df : InUnit(pattern_df[k].overall_score)

\* C2: a zero or undefined maximum gives an empty ranked table: no returned row
\* carries a NaN or infinite overall_score.
C2_NoNaNScore ==
    Returned => \A k \in DOMAIN pattern_df : pattern_df[k].overall_score.kind = "num"

\* C3: every row of a pattern carries the same detections value, the number of
\* distinct periods in which the pattern is detected.
C3_DetectionsCountPeriods ==
    Returned =>
        \A k \in DOMAIN pattern_df :
            pattern_df[k].detections =
                Cardinality({pattern_df[j].period :
                    j \in {i \in DOMAIN pattern_df :
                              pattern_df[i].pattern = pattern_df[k].pattern}})

\* C3 witness: a returned table with a pattern detected in two periods, one row
\* per period.
C3_Witness ==
    /\ Returned
    /\ \E k \in DOMAIN pattern_df : \E j \in DOMAIN pattern_df :
          /\ pattern_df[k].detections = 2
          /\ pattern_df[j].pattern = pattern_df[k].pattern
          /\ pattern_df[j].period # pattern_df[k].period

NotBelow(a, b) ==
    \/ a.kind = "+inf"
    \/ b.kind = "-inf"
    \/ a.kind = "num" /\ b.kind = "num" /\ a.num >= b.num

C5_MaxScoreIsOne ==
    (Returned /\ pattern_df # <<>>) =>
        /\ \E k \in DOMAIN pattern_df : pattern_df[k].overall_score = Frac(100, 100)
        /\ \A k \in DOMAIN pattern_df :
              /\ pattern_df[k].overall_score.kind = "num"
              /\ pattern_df[k].overall_score.num <= 100

\* C6: on an empty dynamic table with no node positions detect_patterns returns,
\* without raising, an empty ranked table with close_pairs = 0 and all_pairs = 0.
C6_EmptyTable ==
    (dp_status # "idle" /\ dynamic_df = {} /\ DOMAIN node_to_period_to_pos = {}) =>
        /\ dp_status = "returned"
        /\ pattern_df = <<>>
        /\ close_pairs = 0
        /\ all_pairs = 0

\* C6 witness: detect_patterns has returned on the empty table.
C6_Witness == Returned /\ dynamic_df = {} /\ DOMAIN node_to_period_to_pos = {}

\* C7: on the same table, positions and max_pattern_length, the (period, pattern)
\* detections of the call with the larger min_pattern_count are among those of the
\* call with the smaller one.
C7_RaisingMinCountOnlyRemoves ==
    (Returned /\ prev_run # NoRun) =>
        /\ prev_run.m <= min_pattern_count => DetSet(pattern_df) \subseteq prev_run.dets
        /\ min_pattern_count <= prev_run.m => prev_run.dets \subseteq DetSet(pattern_df)

\* C7 witness: a second call with a larger min_pattern_count lost detections.
C7_Witness ==
    /\ Returned
    /\ prev_run # NoRun
    /\ prev_run.m < min_pattern_count
    /\ DetSet(pattern_df) # prev_run.dets

\* C8: prepare_graph with min_edge_weight or missing_edge_prop outside [0,1], and
\* detect_patterns with max_pattern_length <= 0, raise a ConfigurationError and
\* return no result.
C8_FailFast ==
    /\ (pg_status # "idle" /\ (OutOfRange(min_edge_weight) \/ OutOfRange(missing_edge_prop)))
           => pg_status = "raised"
    /\ (dp_status # "idle" /\ max_pattern_length <= 0) => dp_status = "raised"

TablePeriods == sorted(PeriodSeq, {r.period : r \in dynamic_df})

\* C9: create_time_series_df returns, pattern by pattern in the given order, one
\* (period, pattern, count) row per period of the dynamic table, so
\* (selected patterns) x (periods) rows, a repeated pattern repeating its series.
C9_OneRowPerPatternAndPeriod ==
    ts_status = "returned" =>
        /\ Len(time_series_df) = Len(selected) * Len(TablePeriods)
        /\ \A i \in DOMAIN selected : \A j \in DOMAIN TablePeriods :
              /\ time_series_df[(i - 1) * Len(TablePeriods) + j].period = TablePeriods[j]
              /\ time_series_df[(i - 1) * Len(TablePeriods) + j].pattern = selected[i]

\* C9 witness: the same pattern selected twice over two periods, with a period
\* where its count is 0.
C9_Witness ==
    /\ ts_status = "returned"
    /\ Len(selected) = 2
    /\ selected[1] = selected[2]
    /\ Len(TablePeriods) = 2
    /\ \E k \in DOMAIN time_series_df : time_series_df[k].count = 0
    /\ \E k \in DOMAIN time_series_df : time_series_df[k].count > 0

Standardized ==
    /\ \A i \in DOMAIN model_df : \A j \in DOMAIN model_df :
          (i # j) =>
              <<model_df[i].subject_id, model_df[i].period, model_df[i].full_attribute>> #
              <<model_df[j].subject_id, model_df[j].period, model_df[j].full_attribute>>
    /\ \A i \in DOMAIN model_df :
          /\ model_df[i].attribute_value # <<>>
          /\ model_df[i].period # <<>>
          /\ model_df[i].full_attribute =
                 model_df[i].attribute_type \o type_val_sep \o model_df[i].attribute_value

\* C10 as written: every table generate_graph_model produces from distinct column
\* names has unique (Subject ID, Period, Full Attribute), no empty Attribute Value,
\* no empty Period, and Full Attribute = Attribute Type + type_val_sep + Attribute Value.
C10_Standardized == gm_status = "returned" => Standardized

Chars(chars) == Range(chars)
\* type_val_sep is non-empty and shares no character with a column name or a value
SeparatorClear ==
    /\ type_val_sep # <<>>
    /\ \A j \in DOMAIN att_cols : Chars(att_cols[j]) \cap Chars(type_val_sep) = {}
    /\ \A i \in DOMAIN wide_df : \A j \in DOMAIN wide_df[i].vals :
          Chars(astype_str(wide_df[i].vals[j])) \cap Chars(type_val_sep) = {}

\* C10 amended: the same, for tables whose type_val_sep is non-empty and shares
\* no character with the attribute column names and values.
C10_StandardizedClearSeparator ==
    (gm_status = "returned" /\ SeparatorClear) => Standardized

\* C10 witness: a produced table with two rows of one subject, and an input with a
\* null cell and a row without period that were filtered out.
C10_Witness ==
    /\ gm_status = "returned"
    /\ SeparatorClear
    /\ \E i \in DOMAIN model_df : \E j \in DOMAIN model_df :
          i # j /\ model_df[i].subject_id = model_df[j].subject_id
    /\ \E i \in DOMAIN wide_df : \E j \in DOMAIN wide_df[i].vals : wide_df[i].vals[j].null
    /\ \E i \in DOMAIN wide_df : wide_df[i].period.null

====
